---- MODULE Spec2Model ----
(***************************************************************************)
(* The order tracking core of udatracker: the in-memory repository         *)
(* (in_memory_storage.py), the Order entity (models.py) and the validating *)
(* OrderTracker (order_tracker.py), with the responses of the API routes   *)
(* (app.py).  In Spec and SpecTypes each call is one action; in            *)
(* SpecThreads the calls are served by two threads, step by step.          *)
(***************************************************************************)
EXTENDS Integers, Sequences, FiniteSets, TLC

VARIABLES
    orders,   \* InMemoryStorage.orders: a Python dict, kept in insertion order
    clock,    \* what datetime.now() reads, in microseconds
    last,     \* the last tracker call: operation, arguments, outcome, the repository
              \* methods it invoked, the dict as it was when the call began, and
              \* the response of the API route that made the call
    creates,  \* the order ids of the create_order calls that returned, in order
    threads   \* the request each server thread is serving and how far it has got

vars == <<orders, clock, last, creates, threads>>

-----------------------------------------------------------------------------
(* Python values.  Every value carries its type; s is the text of a str,   *)
(* n the number of an int, bool (True is 1, False is 0) or float (in       *)
(* tenths), or the length of a list or dict.                               *)

PyStr(s) == [type |-> "str", s |-> s, n |-> 0]
PyInt(n) == [type |-> "int", s |-> "", n |-> n]
PyBool(b) == [type |-> "bool", s |-> "", n |-> IF b THEN 1 ELSE 0]
PyFloat(tenths) == [type |-> "float", s |-> "", n |-> tenths]
PyList(len) == [type |-> "list", s |-> "", n |-> len]
PyDict(len) == [type |-> "dict", s |-> "", n |-> len]
PyNone == [type |-> "NoneType", s |-> "", n |-> 0]

\* bool(v): the truth value Python's `not v` negates
Truthy(v) ==
    CASE v.type = "str" -> v.s # ""
      [] v.type = "NoneType" -> FALSE
      [] OTHER -> v.n # 0

\* isinstance(v, str)
IsInstanceStr(v) == v.type = "str"

\* isinstance(v, int): bool is a subclass of int
IsInstanceInt(v) == v.type \in {"int", "bool"}

-----------------------------------------------------------------------------
(* Bounds and the clock.                                                   *)

MicrosPerSecond == 1000000
MaxTicks == 2

\* the clock reading when the process starts: just before a whole second
StartClock == MicrosPerSecond - 1
MaxClock == StartClock + MaxTicks

\* datetime.isoformat(): the fraction is left out when microsecond is 0
isoformat(t) ==
    IF t % MicrosPerSecond = 0
    THEN <<t \div MicrosPerSecond>>
    ELSE <<t \div MicrosPerSecond, t % MicrosPerSecond>>

-----------------------------------------------------------------------------
(* models.py: Order                                                        *)

\* the two readings taken in the other order: updated_at first, created_at second
Order_updated_at_read_first(order_id, item_name, quantity, customer_id, status, now, elapsed) ==
    [order_id |-> order_id, item_name |-> item_name, quantity |-> quantity,
     customer_id |-> customer_id, status |-> status,
     created_at |-> now + elapsed, updated_at |-> now]

\* Order(...) followed by __post_init__: created_at and updated_at are two
\* separate readings of datetime.now(), `elapsed` apart
Order(order_id, item_name, quantity, customer_id, status, now, elapsed) ==
    [order_id |-> order_id, item_name |-> item_name, quantity |-> quantity,
     customer_id |-> customer_id, status |-> status,
     created_at |-> now, updated_at |-> now + elapsed]

\* the status assigned, the timestamp left as it was
update_status_keeps_updated_at(order, new_status, now) ==
    [order EXCEPT !.status = new_status]

\* the timestamp assigned, the status left as it was
update_status_keeps_status(order, new_status, now) ==
    [order EXCEPT !.updated_at = now]

\* both timestamps assigned, as when the order is built anew
update_status_restamps_created_at(order, new_status, now) ==
    [order EXCEPT !.status = new_status, !.updated_at = now, !.created_at = now]

update_status(order, new_status, now) ==
    [order EXCEPT !.status = new_status, !.updated_at = now]

to_dict(order) ==
    [order_id |-> order.order_id, item_name |-> order.item_name,
     quantity |-> order.quantity, customer_id |-> order.customer_id,
     status |-> order.status,
     created_at |-> isoformat(order.created_at),
     updated_at |-> isoformat(order.updated_at)]

-----------------------------------------------------------------------------
(* in_memory_storage.py: InMemoryStorage.  The dict is a sequence of       *)
(* entries [key, val] in insertion order; an Optional[Order] is a sequence *)
(* of length 0 (None) or 1.                                                *)

KeyIndexes(d, key) == {i \in 1..Len(d) : d[i].key = key}

\* a save keyed by the customer instead of the order id
Storage_save_order_by_customer(d, order) ==
    IF KeyIndexes(d, order.customer_id) # {}
    THEN [i \in 1..Len(d) |->
            IF d[i].key = order.customer_id
            THEN [key |-> order.customer_id, val |-> order] ELSE d[i]]
    ELSE Append(d, [key |-> order.customer_id, val |-> order])

\* a replaced key taken out and put back at the end of the dict
Storage_save_order_moves_to_end(d, order) ==
    Append(SelectSeq(d, LAMBDA e : e.key # order.order_id),
           [key |-> order.order_id, val |-> order])

Storage_save_order(d, order) ==
    IF KeyIndexes(d, order.order_id) # {}
    THEN [i \in 1..Len(d) |->
            IF d[i].key = order.order_id
            THEN [key |-> order.order_id, val |-> order] ELSE d[i]]
    ELSE Append(d, [key |-> order.order_id, val |-> order])

Storage_get_order(d, order_id) ==
    IF KeyIndexes(d, order_id) = {}
    THEN <<>>
    ELSE <<d[CHOOSE i \in KeyIndexes(d, order_id) : TRUE].val>>

\* the scan of get_orders_by_status("pending") in place of the full one
Storage_get_all_orders_pending_only(d) ==
    SelectSeq([i \in 1..Len(d) |-> d[i].val], LAMBDA o : o.status = PyStr("pending"))

Storage_get_all_orders(d) == [i \in 1..Len(d) |-> d[i].val]

\* the scan without its filter
Storage_get_orders_by_status_unfiltered(d, status) == Storage_get_all_orders(d)

Storage_get_orders_by_status(d, status) ==
    SelectSeq(Storage_get_all_orders(d), LAMBDA o : o.status = status)

\* the scan comparing the order id, not the customer id
Storage_get_orders_by_customer_on_order_id(d, customer_id) ==
    SelectSeq(Storage_get_all_orders(d), LAMBDA o : o.order_id = customer_id)

Storage_get_orders_by_customer(d, customer_id) ==
    SelectSeq(Storage_get_all_orders(d), LAMBDA o : o.customer_id = customer_id)

-----------------------------------------------------------------------------
(* order_tracker.py: OrderTracker                                          *)

\* the truthiness test alone, without the isinstance test
InvalidStr_truthiness_only(x) == ~Truthy(x)

\* `not x or not isinstance(x, str)`
InvalidStr(x) == ~Truthy(x) \/ ~IsInstanceStr(x)

\* `quantity < 0` in place of `quantity <= 0`
InvalidQuantity_zero_allowed(quantity) == ~IsInstanceInt(quantity) \/ quantity.n < 0

\* `not isinstance(quantity, int) or quantity <= 0`
InvalidQuantity(quantity) == ~IsInstanceInt(quantity) \/ quantity.n <= 0

Mandatory(field) == <<field, " is mandatory">>
QuantityReason == <<"quantity is mandatory and must be bigger than 0">>
ExistsReason(order_id) == <<"Order with ID '", order_id.s, "' already exists">>

\* how a call ended: a returned value (a sequence of representations), a
\* returned None, or a raised ValueError with its message
Returned(value) == [kind |-> "return", reason |-> <<>>, value |-> value]
ReturnedNone == [kind |-> "None", reason |-> <<>>, value |-> <<>>]
ValueError(reason) == [kind |-> "ValueError", reason |-> reason, value |-> <<>>]

\* app.py: what a route answers; the error handlers give the error text
Response(status, error) == [status |-> status, error |-> error]

\* a None result answered like a found order
route_response_none_unchecked(op, result) ==
    IF op = "abort" \/ result.kind = "ValueError"
    THEN Response(400, "Bad request")
    ELSE IF op = "create_order"
    THEN Response(201, "")
    ELSE Response(200, "")

\* the response of the route that calls the tracker method op: abort(400) on
\* a missing body or field and on ValueError, abort(404) on None from get
\* and update, 201 for a created order, 200 otherwise
route_response(op, result) ==
    IF op = "abort" \/ result.kind = "ValueError"
    THEN Response(400, "Bad request")
    ELSE IF op \in {"get_order", "update_order_status"} /\ result.kind = "None"
    THEN Response(404, "Not found")
    ELSE IF op = "create_order"
    THEN Response(201, "")
    ELSE Response(200, "")

\* the operations whose route answers with a list of orders
ListOps ==
    {"get_all_orders", "get_orders_by_status", "get_orders_by_customer", "GET /api/orders"}

\* the filter a list route names in its body: none for all orders, the
\* customer_id of GET /api/orders?customer_id=..., the status of the status route
route_filter(op, args) ==
    IF op = "get_orders_by_status" THEN <<"status", args[1]>>
    ELSE IF op = "get_orders_by_customer" THEN <<"customer_id", args[1]>>
    ELSE IF op = "GET /api/orders" /\ Truthy(args[1]) THEN <<"customer_id", args[1]>>
    ELSE <<>>

\* the count taken from the repository instead of from the list answered
route_body_count_stored(op, args, result) ==
    IF op \in ListOps /\ result.kind = "return"
    THEN [orders |-> result.value, count |-> Len(orders), filter |-> route_filter(op, args)]
    ELSE result.value

\* the JSON body of a successful answer: a list route answers the list, its
\* len() as count and the filter; the other routes answer the order
route_body(op, args, result) ==
    IF op \in ListOps /\ result.kind = "return"
    THEN [orders |-> result.value, count |-> Len(result.value),
          filter |-> route_filter(op, args)]
    ELSE result.value

Call(op, args, result, calls) ==
    [op |-> op, args |-> args, result |-> result, calls |-> calls, before |-> orders,
     response |-> route_response(op, result), body |-> route_body(op, args, result)]

\* a call that ends without writing to the repository
Ends(op, args, result, calls) ==
    /\ last' = Call(op, args, result, calls)
    /\ UNCHANGED <<orders, clock, creates, threads>>

\* the id looked up with InMemoryStorage.get, in the generic dict that holds no order
AlreadyExists_generic_get(d, order_id) == FALSE

\* `self.storage.get_order(order_id) is not None`
AlreadyExists(d, order_id) == Storage_get_order(d, order_id) # <<>>

\* the id looked up before the arguments are validated
create_order_raises_lookup_first(d, order_id, item_name, quantity, customer_id) ==
    IF ~InvalidStr(order_id) /\ AlreadyExists(d, order_id)
    THEN ValueError(ExistsReason(order_id))
    ELSE IF InvalidStr(order_id) THEN ValueError(Mandatory("order_id"))
    ELSE IF InvalidStr(item_name) THEN ValueError(Mandatory("item_name"))
    ELSE IF InvalidQuantity(quantity) THEN ValueError(QuantityReason)
    ELSE IF InvalidStr(customer_id) THEN ValueError(Mandatory("customer_id"))
    ELSE ReturnedNone

\* what create_order raises on the dict d: order_tracker.py:39-53, or
\* ReturnedNone when it raises nothing and goes on to build the order
create_order_raises(d, order_id, item_name, quantity, customer_id) ==
    IF InvalidStr(order_id) THEN ValueError(Mandatory("order_id"))
    ELSE IF InvalidStr(item_name) THEN ValueError(Mandatory("item_name"))
    ELSE IF InvalidQuantity(quantity) THEN ValueError(QuantityReason)
    ELSE IF InvalidStr(customer_id) THEN ValueError(Mandatory("customer_id"))
    ELSE IF AlreadyExists(d, order_id) THEN ValueError(ExistsReason(order_id))
    ELSE ReturnedNone

create_order(order_id, item_name, quantity, customer_id) ==
    LET args == <<order_id, item_name, quantity, customer_id>>
        op == "create_order"
        raised == create_order_raises(orders, order_id, item_name, quantity, customer_id)
    IN  IF raised.kind = "ValueError"
        THEN Ends(op, args, raised,
                  IF raised = ValueError(ExistsReason(order_id))
                  THEN <<"get_order">> ELSE <<>>)
        ELSE \E elapsed \in 0..1 :
               LET order == Order(order_id, item_name, quantity, customer_id,
                                  PyStr("pending"), clock, elapsed)
               IN  /\ clock + elapsed <= MaxClock
                   /\ clock' = clock + elapsed
                   /\ orders' = Storage_save_order(orders, order)
                   /\ creates' = Append(creates, order_id)
                   /\ last' = Call(op, args, Returned(<<to_dict(order)>>),
                                   <<"get_order", "save_order">>)
                   /\ UNCHANGED threads

\* an id that is not stored reported as an error instead of None
get_order_result_missing_raises(d, order_id) ==
    IF InvalidStr(order_id)
    THEN ValueError(Mandatory("order_id"))
    ELSE LET order == Storage_get_order(d, order_id)
         IN  IF order # <<>>
             THEN Returned(<<to_dict(order[1])>>)
             ELSE ValueError(Mandatory("order_id"))

\* what get_order returns or raises on the dict d
get_order_result(d, order_id) ==
    IF InvalidStr(order_id)
    THEN ValueError(Mandatory("order_id"))
    ELSE LET order == Storage_get_order(d, order_id)
         IN  IF order # <<>> THEN Returned(<<to_dict(order[1])>>) ELSE ReturnedNone

get_order(order_id) ==
    LET result == get_order_result(orders, order_id)
    IN  /\ Ends("get_order", <<order_id>>, result,
                IF result.kind = "ValueError" THEN <<>> ELSE <<"get_order">>)

\* new_status validated only after the order has been fetched
update_order_status_late_check(order_id, new_status) ==
    LET args == <<order_id, new_status>>
        op == "update_order_status"
    IN  IF InvalidStr(order_id)
        THEN Ends(op, args, ValueError(Mandatory("order_id")), <<>>)
        ELSE LET found == Storage_get_order(orders, order_id)
             IN  IF InvalidStr(new_status)
                 THEN Ends(op, args, ValueError(Mandatory("new_status")), <<"get_order">>)
                 ELSE IF found = <<>>
                 THEN Ends(op, args, ReturnedNone, <<"get_order">>)
                 ELSE LET order == update_status(found[1], new_status, clock)
                      IN  /\ orders' = Storage_save_order(orders, order)
                          /\ last' = Call(op, args, Returned(<<to_dict(order)>>),
                                          <<"get_order", "save_order">>)
                          /\ UNCHANGED <<clock, creates, threads>>

\* an order that is not stored reported as an error instead of None
update_order_status_missing_raises(order_id, new_status) ==
    LET args == <<order_id, new_status>>
        op == "update_order_status"
    IN  IF InvalidStr(order_id)
        THEN Ends(op, args, ValueError(Mandatory("order_id")), <<>>)
        ELSE IF InvalidStr(new_status)
        THEN Ends(op, args, ValueError(Mandatory("new_status")), <<>>)
        ELSE LET found == Storage_get_order(orders, order_id)
             IN  IF found = <<>>
                 THEN Ends(op, args, ValueError(Mandatory("order_id")), <<"get_order">>)
                 ELSE LET order == update_status(found[1], new_status, clock)
                      IN  /\ orders' = Storage_save_order(orders, order)
                          /\ last' = Call(op, args, Returned(<<to_dict(order)>>),
                                          <<"get_order", "save_order">>)
                          /\ UNCHANGED <<clock, creates, threads>>

update_order_status(order_id, new_status) ==
    LET args == <<order_id, new_status>>
        op == "update_order_status"
    IN  IF InvalidStr(order_id)
        THEN Ends(op, args, ValueError(Mandatory("order_id")), <<>>)
        ELSE IF InvalidStr(new_status)
        THEN Ends(op, args, ValueError(Mandatory("new_status")), <<>>)
        ELSE LET found == Storage_get_order(orders, order_id)
             IN  IF found = <<>>
                 THEN Ends(op, args, ReturnedNone, <<"get_order">>)
                 ELSE LET order == update_status(found[1], new_status, clock)
                      IN  /\ orders' = Storage_save_order(orders, order)
                          /\ last' = Call(op, args, Returned(<<to_dict(order)>>),
                                          <<"get_order", "save_order">>)
                          /\ UNCHANGED <<clock, creates, threads>>

MapToDict(os) == [i \in 1..Len(os) |-> to_dict(os[i])]

\* what get_all_orders returns on the dict d
get_all_orders_result(d) == Returned(MapToDict(Storage_get_all_orders(d)))

get_all_orders ==
    /\ Ends("get_all_orders", <<>>, get_all_orders_result(orders), <<"get_all_orders">>)

get_orders_by_status(status) ==
    LET args == <<status>>
        op == "get_orders_by_status"
    IN  IF InvalidStr(status)
        THEN Ends(op, args, ValueError(Mandatory("status")), <<>>)
        ELSE Ends(op, args,
                  Returned(MapToDict(Storage_get_orders_by_status(orders, status))),
                  <<"get_orders_by_status">>)

\* what get_orders_by_customer returns or raises on the dict d
get_orders_by_customer_result(d, customer_id) ==
    IF InvalidStr(customer_id)
    THEN ValueError(Mandatory("customer_id"))
    ELSE Returned(MapToDict(Storage_get_orders_by_customer(d, customer_id)))

get_orders_by_customer(customer_id) ==
    LET result == get_orders_by_customer_result(orders, customer_id)
    IN  /\ Ends("get_orders_by_customer", <<customer_id>>, result,
                IF result.kind = "ValueError" THEN <<>> ELSE <<"get_orders_by_customer">>)

\* the filter applied whenever the parameter is present, the empty one included
api_get_all_orders_filters_when_present(customer_id) ==
    LET filtered == customer_id # PyNone
        result == IF filtered
                  THEN get_orders_by_customer_result(orders, customer_id)
                  ELSE get_all_orders_result(orders)
    IN  /\ Ends("GET /api/orders", <<customer_id>>, result,
                IF ~filtered THEN <<"get_all_orders">>
                ELSE IF result.kind = "ValueError" THEN <<>>
                ELSE <<"get_orders_by_customer">>)

\* app.py: GET /api/orders.  customer_id is request.args.get("customer_id"):
\* None without the parameter, otherwise its text; `if customer_id:` sends the
\* request to get_orders_by_customer, anything else to get_all_orders
api_get_all_orders(customer_id) ==
    LET filtered == Truthy(customer_id)
        result == IF filtered
                  THEN get_orders_by_customer_result(orders, customer_id)
                  ELSE get_all_orders_result(orders)
    IN  /\ Ends("GET /api/orders", <<customer_id>>, result,
                IF ~filtered THEN <<"get_all_orders">>
                ELSE IF result.kind = "ValueError" THEN <<>>
                ELSE <<"get_orders_by_customer">>)

\* POST /api/create or PUT /api/update/<order_id> with no JSON body or
\* without a required field: abort(400) before the tracker is called
abort_request(route) ==
    /\ Ends("abort", <<PyStr(route)>>, ReturnedNone, <<>>)

\* time passes between two calls; the clock datetime.now() reads is taken to
\* move forward only
Tick ==
    /\ clock < MaxClock
    /\ clock' = clock + 1
    /\ UNCHANGED <<orders, last, creates, threads>>

-----------------------------------------------------------------------------
(* The same tracker methods served by the threads of the development       *)
(* server (app.run, app.py:143), one step per access to the dict, to the   *)
(* clock or to a field of an Order object.  An Order object carries its    *)
(* identity ref: the dict and the local variable `order` of every thread   *)
(* holding the object see each assignment to one of its fields.            *)

Threads == {1, 2}

\* a thread between two requests; built counts the Order objects it has built
IdleThread(built) ==
    [pc |-> "idle", op |-> "", args |-> <<>>, order |-> <<>>, seen |-> <<>>,
     seen_mid |-> {}, old |-> <<>>, stored |-> FALSE, alone |-> TRUE, built |-> built,
     result |-> ReturnedNone, partial |-> FALSE]

\* thread u is inside a create_order or update_order_status of order_id
InFlightMutation(u, order_id) ==
    /\ threads[u].pc \notin {"idle", "done"}
    /\ threads[u].op \in {"create_order", "update_order_status"}
    /\ threads[u].args[1] = order_id

\* thread t enters the method op with valid arguments; a call is alone as long
\* as no other mutation of its order_id is in flight together with it
Enters(t, op, args, pc) ==
    LET others == IF op = "get_order" THEN {}
                  ELSE {u \in Threads \ {t} : InFlightMutation(u, args[1])}
    IN  threads' = [u \in Threads |->
            IF u = t
            THEN [IdleThread(threads[t].built) EXCEPT
                     !.pc = pc, !.op = op, !.args = args,
                     !.stored = (KeyIndexes(orders, args[1]) # {}), !.alone = (others = {})]
            ELSE IF u \in others THEN [threads[u] EXCEPT !.alone = FALSE]
            ELSE threads[u]]

\* thread t leaves its method with result: the response is ready
Leaves(t, result, partial) ==
    threads' = [threads EXCEPT ![t].pc = "done", ![t].result = result,
                               ![t].partial = partial]

\* a method that raises on its arguments before it touches anything shared
Rejects(t, op, args, reason) ==
    threads' = [threads EXCEPT ![t] =
                   [IdleThread(threads[t].built) EXCEPT
                       !.pc = "done", !.op = op, !.args = args,
                       !.stored = (KeyIndexes(orders, args[1]) # {}),
                       !.result = ValueError(reason)]]

\* the assignment of value to the attribute field of the object ref, seen by
\* every holder of the object, after which thread t is at pc
Assigns(t, ref, field, value, pc) ==
    /\ orders' = [i \in 1..Len(orders) |->
                    IF orders[i].val.ref = ref
                    THEN [orders[i] EXCEPT !.val[field] = value]
                    ELSE orders[i]]
    /\ threads' = [u \in Threads |->
                    LET th == IF u = t THEN [threads[u] EXCEPT !.pc = pc] ELSE threads[u]
                    IN  IF th.order # <<>> /\ th.order[1].ref = ref
                        THEN [th EXCEPT !.order[1][field] = value]
                        ELSE th]

\* order_tracker.py:39-49: create_order validates its arguments
serve_create_order(t, order_id, item_name, quantity, customer_id) ==
    LET args == <<order_id, item_name, quantity, customer_id>>
        op == "create_order"
    IN  /\ threads[t].pc = "idle"
        /\ IF InvalidStr(order_id)
           THEN Rejects(t, op, args, Mandatory("order_id"))
           ELSE IF InvalidStr(item_name)
           THEN Rejects(t, op, args, Mandatory("item_name"))
           ELSE IF InvalidQuantity(quantity)
           THEN Rejects(t, op, args, QuantityReason)
           ELSE IF InvalidStr(customer_id)
           THEN Rejects(t, op, args, Mandatory("customer_id"))
           ELSE Enters(t, op, args, "check")
        /\ UNCHANGED <<orders, clock, last, creates>>

\* order_tracker.py:52-53: the existence check
create_order_check(t) ==
    /\ threads[t].pc = "check"
    /\ IF AlreadyExists(orders, threads[t].args[1])
       THEN Leaves(t, ValueError(ExistsReason(threads[t].args[1])), FALSE)
       ELSE threads' = [threads EXCEPT ![t].pc = "build"]
    /\ UNCHANGED <<orders, clock, last, creates>>

\* order_tracker.py:56-62: a new Order object, known to this thread alone
create_order_build(t) ==
    /\ threads[t].pc = "build"
    /\ \E elapsed \in 0..1 :
          LET a == threads[t].args
              order == [ref |-> <<t, threads[t].built + 1>>]
                          @@ Order(a[1], a[2], a[3], a[4], PyStr("pending"), clock, elapsed)
          IN  /\ clock + elapsed <= MaxClock
              /\ clock' = clock + elapsed
              /\ threads' = [threads EXCEPT ![t].pc = "save", ![t].order = <<order>>,
                                            ![t].built = @ + 1]
    /\ UNCHANGED <<orders, last, creates>>

\* order_tracker.py:65 and 127: self.storage.save_order(order)
save_order(t) ==
    /\ threads[t].pc = "save"
    /\ orders' = Storage_save_order(orders, threads[t].order[1])
    /\ threads' = [threads EXCEPT ![t].pc = "to_dict"]
    /\ UNCHANGED <<clock, last, creates>>

\* the threads that have assigned the status s to the object ref and not yet
\* its updated_at, s being another status than the one they found
MidUpdate(ref, s) ==
    {u \in Threads : /\ threads[u].pc = "set_updated_at"
                     /\ threads[u].order[1].ref = ref
                     /\ threads[u].args[2] = s
                     /\ threads[u].old[1].status # s}

\* models.py:54-58: to_dict reads the fields up to status
to_dict_status(t) ==
    /\ threads[t].pc = "to_dict"
    /\ LET order == threads[t].order[1]
       IN  threads' = [threads EXCEPT ![t].pc = "to_dict_updated_at",
                                      ![t].seen = <<order.status>>,
                                      ![t].seen_mid = MidUpdate(order.ref, order.status) \ {t}]
    /\ UNCHANGED <<orders, clock, last, creates>>

\* models.py:59-60: to_dict reads the timestamps, and the method returns the
\* dictionary.  The reading is partial when an update that had assigned the
\* status read has still not assigned updated_at, later than the one read.
to_dict_updated_at(t) ==
    /\ threads[t].pc = "to_dict_updated_at"
    /\ LET order == threads[t].order[1]
           read == [order EXCEPT !.status = threads[t].seen[1]]
           partial == \E u \in threads[t].seen_mid :
                         /\ u \in MidUpdate(order.ref, read.status)
                         /\ threads[u].old[1].updated_at = read.updated_at
                         /\ read.updated_at < clock
       IN  Leaves(t, Returned(<<to_dict(read)>>), partial)
    /\ UNCHANGED <<orders, clock, last, creates>>

\* the response has been sent: the thread is free for its next request
returns(t) ==
    /\ threads[t].pc = "done"
    /\ threads' = [threads EXCEPT ![t] = IdleThread(threads[t].built)]
    /\ UNCHANGED <<orders, clock, last, creates>>

\* order_tracker.py:84-85: get_order validates its argument
serve_get_order(t, order_id) ==
    /\ threads[t].pc = "idle"
    /\ IF InvalidStr(order_id)
       THEN Rejects(t, "get_order", <<order_id>>, Mandatory("order_id"))
       ELSE Enters(t, "get_order", <<order_id>>, "fetch")
    /\ UNCHANGED <<orders, clock, last, creates>>

\* order_tracker.py:110-114: update_order_status validates its arguments
serve_update_order_status(t, order_id, new_status) ==
    LET args == <<order_id, new_status>>
        op == "update_order_status"
    IN  /\ threads[t].pc = "idle"
        /\ IF InvalidStr(order_id)
           THEN Rejects(t, op, args, Mandatory("order_id"))
           ELSE IF InvalidStr(new_status)
           THEN Rejects(t, op, args, Mandatory("new_status"))
           ELSE Enters(t, op, args, "fetch")
        /\ UNCHANGED <<orders, clock, last, creates>>

\* order_tracker.py:88 and 117: order = self.storage.get_order(order_id), the
\* stored object itself; None ends both methods
fetch_order(t) ==
    /\ threads[t].pc = "fetch"
    /\ LET found == Storage_get_order(orders, threads[t].args[1])
       IN  IF found = <<>>
           THEN Leaves(t, ReturnedNone, FALSE)
           ELSE threads' = [threads EXCEPT
                               ![t].order = found, ![t].old = found,
                               ![t].pc = IF threads[t].op = "get_order"
                                         THEN "to_dict" ELSE "set_status"]
    /\ UNCHANGED <<orders, clock, last, creates>>

\* models.py:43: self.status = new_status
set_status(t) ==
    /\ threads[t].pc = "set_status"
    /\ Assigns(t, threads[t].order[1].ref, "status", threads[t].args[2], "set_updated_at")
    /\ UNCHANGED <<clock, last, creates>>

\* models.py:44: self.updated_at = datetime.now()
set_updated_at(t) ==
    /\ threads[t].pc = "set_updated_at"
    /\ Assigns(t, threads[t].order[1].ref, "updated_at", clock, "save")
    /\ UNCHANGED <<clock, last, creates>>

-----------------------------------------------------------------------------
(* The callers' inputs.  Spec runs the tracker over two order ids and two  *)
(* customers with a few invalid arguments; SpecTypes runs it over one      *)
(* order id with arguments of every Python type.                           *)

OrderIds == {PyStr("A"), PyStr("B")}
ItemNames == {PyStr("Item")}
CustomerIds == {PyStr("C1"), PyStr("C2")}
Statuses == {PyStr("pending"), PyStr("shipped")}

AbortingRoutes == {"create_order", "update_order_status"}

\* request.args.get("customer_id"): the parameter missing, empty, or a customer
QueryCustomerIds == {PyNone, PyStr("")} \cup CustomerIds

Init ==
    /\ orders = <<>>
    /\ clock = StartClock
    /\ last = Call("init", <<>>, ReturnedNone, <<>>)
    /\ creates = <<>>
    /\ threads = [t \in Threads |-> IdleThread(0)]

Next ==
    \/ \E order_id \in OrderIds \cup {PyStr("")},
          item_name \in ItemNames,
          quantity \in {PyInt(0), PyInt(1)},
          customer_id \in CustomerIds \cup {PyStr("")} :
            create_order(order_id, item_name, quantity, customer_id)
    \/ \E order_id \in OrderIds : get_order(order_id)
    \/ \E order_id \in OrderIds, new_status \in Statuses \cup {PyStr("")} :
            update_order_status(order_id, new_status)
    \/ get_all_orders
    \/ \E status \in Statuses \cup {PyStr("Pending")} : get_orders_by_status(status)
    \/ \E customer_id \in CustomerIds : get_orders_by_customer(customer_id)
    \/ \E customer_id \in QueryCustomerIds : api_get_all_orders(customer_id)
    \/ \E route \in AbortingRoutes : abort_request(route)
    \/ Tick

Spec == Init /\ [][Next]_vars

\* what is not a non-empty string: "", None, 123, True, [], {"k": 1}
NotStrings == {PyStr(""), PyNone, PyInt(123), PyBool(TRUE), PyList(0), PyDict(1)}
TypedIds == {PyStr("A")} \cup NotStrings
TypedItems == {PyStr("Item")} \cup NotStrings
TypedCustomers == {PyStr("C1")} \cup NotStrings
TypedStatuses == {PyStr("shipped")} \cup NotStrings
\* -1, 0, 1, 2, True, False, "2", 2.5, None
TypedQuantities ==
    {PyInt(-1), PyInt(0), PyInt(1), PyInt(2), PyBool(TRUE), PyBool(FALSE),
     PyStr("2"), PyFloat(25), PyNone}

PlainIds == {PyStr("A"), PyStr("")}
PlainItems == {PyStr("Item"), PyStr("")}
PlainQuantities == {PyInt(1), PyInt(0)}
PlainCustomers == {PyStr("C1"), PyStr("")}

\* the arguments of create_order: one of them of any type, the others plain
TypedCreateArgs ==
         (TypedIds \X PlainItems \X PlainQuantities \X PlainCustomers)
    \cup (PlainIds \X TypedItems \X PlainQuantities \X PlainCustomers)
    \cup (PlainIds \X PlainItems \X TypedQuantities \X PlainCustomers)
    \cup (PlainIds \X PlainItems \X PlainQuantities \X TypedCustomers)

NextTypes ==
    \/ \E a \in TypedCreateArgs : create_order(a[1], a[2], a[3], a[4])
    \/ \E order_id \in TypedIds : get_order(order_id)
    \/ \E order_id \in TypedIds, new_status \in TypedStatuses :
            update_order_status(order_id, new_status)
    \/ get_all_orders
    \/ \E status \in TypedStatuses : get_orders_by_status(status)
    \/ \E customer_id \in TypedCustomers : get_orders_by_customer(customer_id)
    \/ \E customer_id \in {PyNone, PyStr(""), PyStr("C1")} : api_get_all_orders(customer_id)
    \/ \E route \in AbortingRoutes : abort_request(route)
    \/ Tick

SpecTypes == Init /\ [][NextTypes]_vars

\* the requests the threads serve: all about one order id, each thread
\* serving one client, who creates for its own customer id and sets its own status
ThreadOrderIds == {PyStr("A")}
ClientCustomer(t) == IF t = 1 THEN PyStr("C1") ELSE PyStr("C2")
ClientStatus(t) == IF t = 1 THEN PyStr("shipped") ELSE PyStr("pending")

NextThreads ==
    \/ \E t \in Threads, order_id \in ThreadOrderIds :
            serve_create_order(t, order_id, PyStr("Item"), PyInt(1), ClientCustomer(t))
    \/ \E t \in Threads, order_id \in ThreadOrderIds \cup {PyStr("")} :
            serve_get_order(t, order_id)
    \/ \E t \in Threads, order_id \in ThreadOrderIds :
            serve_update_order_status(t, order_id, ClientStatus(t))
    \/ \E t \in Threads :
            \/ create_order_check(t)
            \/ create_order_build(t)
            \/ save_order(t)
            \/ fetch_order(t)
            \/ set_status(t)
            \/ set_updated_at(t)
            \/ to_dict_status(t)
            \/ to_dict_updated_at(t)
            \/ returns(t)
    \/ Tick

SpecThreads == Init /\ [][NextThreads]_vars

-----------------------------------------------------------------------------
(* The vocabulary of the properties, stated on values and on the dict      *)
(* without the tracker's own checks.                                       *)

Range(s) == {s[i] : i \in 1..Len(s)}

NonEmptyString(v) == v.type = "str" /\ v.s # ""
PositiveInteger(v) == v.type = "int" /\ v.n > 0

Stored(d, order_id) == \E i \in 1..Len(d) : d[i].val.order_id = order_id
StoredOrder(d, order_id) == d[CHOOSE i \in 1..Len(d) : d[i].val.order_id = order_id].val

InvalidArgumentReasons ==
    {Mandatory(f) : f \in {"order_id", "item_name", "customer_id", "new_status", "status"}}
        \cup {QuantityReason}
InvalidArgument(result) ==
    result.kind = "ValueError" /\ result.reason \in InvalidArgumentReasons
Conflict(result, order_id) == result = ValueError(ExistsReason(order_id))

CreateCalled == last.op = "create_order"
Created == CreateCalled /\ last.result.kind = "return"
ReadOps == {"get_order", "get_all_orders", "get_orders_by_status", "get_orders_by_customer"}

\* the reason the documented check order gives to create_order's arguments,
\* <<>> when every argument is valid
FirstFailingCreate(a) ==
    IF ~NonEmptyString(a[1]) THEN Mandatory("order_id")
    ELSE IF ~NonEmptyString(a[2]) THEN Mandatory("item_name")
    ELSE IF ~PositiveInteger(a[3]) THEN QuantityReason
    ELSE IF ~NonEmptyString(a[4]) THEN Mandatory("customer_id")
    ELSE <<>>

FirstFailingUpdate(a) ==
    IF ~NonEmptyString(a[1]) THEN Mandatory("order_id")
    ELSE IF ~NonEmptyString(a[2]) THEN Mandatory("new_status")
    ELSE <<>>

-----------------------------------------------------------------------------
\* C1: create_order called with an order_id that is already stored leaves the
\* repository as it was (the same records with the same field values, none
\* added) and never invokes save_order.
C1_DuplicateCreateLeavesRepository ==
    (CreateCalled /\ Stored(last.before, last.args[1]))
        => (orders = last.before /\ "save_order" \notin Range(last.calls))

\* a create of a stored id with valid values that differ from the stored ones
C1_Witness ==
    /\ CreateCalled
    /\ Stored(last.before, last.args[1])
    /\ FirstFailingCreate(last.args) = <<>>
    /\ StoredOrder(last.before, last.args[1]).customer_id # last.args[4]
    /\ Len(orders) = 2

C3_CreateThenGet ==
    Created =>
        /\ get_order_result(orders, last.args[1]) = last.result
        /\ LET r == last.result.value[1]
           IN  /\ r.order_id = last.args[1]
               /\ r.item_name = last.args[2]
               /\ r.quantity = last.args[3]
               /\ r.customer_id = last.args[4]
               /\ r.status = PyStr("pending")

\* a second order created beside a first one
C3_Witness == Created /\ Len(last.before) = 1 /\ Len(orders) = 2

\* C4: every order a successful create_order stores has status "pending" and
\* created_at equal to updated_at.
C4_CreatedEqualsUpdated ==
    Created =>
        LET o == StoredOrder(orders, last.args[1])
        IN  o.status = PyStr("pending") /\ o.created_at = o.updated_at

\* C5: with the other arguments valid and the order_id unused, create_order
\* fails with the quantity reason for every integer quantity <= 0 and succeeds
\* for every integer quantity >= 1.
C5_QuantityBoundary ==
    (/\ CreateCalled
     /\ NonEmptyString(last.args[1])
     /\ NonEmptyString(last.args[2])
     /\ NonEmptyString(last.args[4])
     /\ ~Stored(last.before, last.args[1])
     /\ last.args[3].type = "int")
        => IF last.args[3].n <= 0
           THEN last.result = ValueError(QuantityReason) /\ orders = last.before
           ELSE Created /\ Stored(orders, last.args[1])

\* quantity 1, the smallest accepted one, has been stored
C5_Witness ==
    /\ Created
    /\ last.args[3] = PyInt(1)
    /\ StoredOrder(orders, last.args[1]).quantity = PyInt(1)

\* C6: create_order rejects with the quantity reason, storing nothing, every
\* quantity that is not of integer type: fractions, strings, None, and the
\* booleans True and False (the other arguments being valid).
C6_NonIntegerQuantityRejected ==
    (/\ CreateCalled
     /\ NonEmptyString(last.args[1])
     /\ NonEmptyString(last.args[2])
     /\ NonEmptyString(last.args[4])
     /\ last.args[3].type # "int")
        => last.result = ValueError(QuantityReason) /\ orders = last.before

\* the string parameters of each operation: position and field name
StringParams(op) ==
    CASE op = "create_order" -> {<<1, "order_id">>, <<2, "item_name">>, <<4, "customer_id">>}
      [] op = "get_order" -> {<<1, "order_id">>}
      [] op = "update_order_status" -> {<<1, "order_id">>, <<2, "new_status">>}
      [] op = "get_orders_by_status" -> {<<1, "status">>}
      [] op = "get_orders_by_customer" -> {<<1, "customer_id">>}
      [] OTHER -> {}

\* the parameters checked before position i are all valid
EarlierValid(op, a, i) ==
    /\ i > 1 => NonEmptyString(a[1])
    /\ (op = "create_order" /\ i > 2) => NonEmptyString(a[2])
    /\ (op = "create_order" /\ i > 3) => PositiveInteger(a[3])

\* C7: every string parameter of every tracker operation that is "", None or
\* not a string makes the call fail with InvalidArgument, with the reason
\* "<field> is mandatory" when the parameters checked before it are valid; a
\* call fails with "<field> is mandatory" only when that parameter is not a
\* non-empty string.
C7_StringParameters ==
    \A p \in StringParams(last.op) :
        LET v == last.args[p[1]]
        IN  /\ ~NonEmptyString(v) => InvalidArgument(last.result)
            /\ (~NonEmptyString(v) /\ EarlierValid(last.op, last.args, p[1]))
                   => last.result = ValueError(Mandatory(p[2]))
            /\ last.result = ValueError(Mandatory(p[2])) => ~NonEmptyString(v)

\* an update of a stored order whose new_status is the number 123
C7_Witness ==
    /\ last.op = "update_order_status"
    /\ Stored(orders, last.args[1])
    /\ last.args[2] = PyInt(123)
    /\ last.result = ValueError(Mandatory("new_status"))

\* C8: a tracker call that fails with InvalidArgument has invoked no
\* repository method, neither a read nor save_order, and the repository is
\* what it was when the call began.
C8_InvalidArgumentBeforeRepository ==
    InvalidArgument(last.result) => (last.calls = <<>> /\ orders = last.before)

\* an update of a stored order rejected for its new_status
C8_Witness ==
    /\ last.op = "update_order_status"
    /\ Stored(orders, last.args[1])
    /\ InvalidArgument(last.result)
    /\ last.result.reason = Mandatory("new_status")
    /\ last.args[2] = PyNone

\* C9: when several arguments are invalid at once, create_order and
\* update_order_status report the reason of the first failing one in the
\* documented order, whatever the later ones are.
C9_FirstFailingField ==
    /\ (CreateCalled /\ FirstFailingCreate(last.args) # <<>>)
           => last.result = ValueError(FirstFailingCreate(last.args))
    /\ (last.op = "update_order_status" /\ FirstFailingUpdate(last.args) # <<>>)
           => last.result = ValueError(FirstFailingUpdate(last.args))

\* C10: get_order with a valid order_id that is not stored returns None and
\* raises nothing, and every read operation leaves the repository as it was.
C10_ReadsLeaveRepository ==
    /\ (/\ last.op = "get_order"
        /\ NonEmptyString(last.args[1])
        /\ ~Stored(last.before, last.args[1]))
           => last.result = ReturnedNone
    /\ last.op \in ReadOps => orders = last.before

\* get_order of an id that is not stored, beside an order that is
C10_Witness ==
    /\ last.op = "get_order"
    /\ NonEmptyString(last.args[1])
    /\ ~Stored(orders, last.args[1])
    /\ Len(orders) = 1
    /\ last.result = ReturnedNone

UpdateCalled == last.op = "update_order_status"
Updated == UpdateCalled /\ last.result.kind = "return"

\* C11: update_order_status with valid arguments on an order_id that is not
\* stored returns None, raises nothing, does not call save_order and leaves
\* the repository as it was: the same records and the same get_all_orders
\* count.
C11_UpdateUnknownLeavesRepository ==
    (/\ UpdateCalled
     /\ NonEmptyString(last.args[1])
     /\ NonEmptyString(last.args[2])
     /\ ~Stored(last.before, last.args[1]))
        => /\ last.result = ReturnedNone
           /\ "save_order" \notin Range(last.calls)
           /\ orders = last.before
           /\ Len(Storage_get_all_orders(orders)) = Len(Storage_get_all_orders(last.before))

\* an update of an id that is not stored, beside an order that is
C11_Witness ==
    /\ UpdateCalled
    /\ NonEmptyString(last.args[1])
    /\ NonEmptyString(last.args[2])
    /\ ~Stored(orders, last.args[1])
    /\ Len(orders) = 1
    /\ last.result = ReturnedNone

\* C12: for a stored order in any status and any non-empty string new_status,
\* the current status included, update_order_status succeeds, returns a
\* representation with that status, and get_order on the id then returns it.
C12_AnyStatusAccepted ==
    (/\ UpdateCalled
     /\ NonEmptyString(last.args[1])
     /\ NonEmptyString(last.args[2])
     /\ Stored(last.before, last.args[1]))
        => /\ last.result.kind = "return"
           /\ last.result.value[1].status = last.args[2]
           /\ LET got == get_order_result(orders, last.args[1])
              IN  got.kind = "return" /\ got.value[1].status = last.args[2]

\* a shipped order set back to pending
C12_Witness ==
    /\ Updated
    /\ StoredOrder(last.before, last.args[1]).status = PyStr("shipped")
    /\ last.args[2] = PyStr("pending")
    /\ StoredOrder(orders, last.args[1]).status = PyStr("pending")

SameIdentity(o1, o2) ==
    /\ o1.order_id = o2.order_id
    /\ o1.item_name = o2.item_name
    /\ o1.quantity = o2.quantity
    /\ o1.customer_id = o2.customer_id
    /\ o1.created_at = o2.created_at

\* C13: whatever the tracker call, an order that was stored before it is still
\* stored with the same order_id, item_name, quantity, customer_id and
\* created_at, a new order has those of its creation, and an update changes
\* nothing but the status and updated_at of its order.
C13_IdentityFieldsFixed ==
    /\ \A i \in 1..Len(last.before) :
          /\ Stored(orders, last.before[i].val.order_id)
          /\ SameIdentity(StoredOrder(orders, last.before[i].val.order_id),
                          last.before[i].val)
    /\ Created =>
          LET o == StoredOrder(orders, last.args[1])
          IN  /\ o.order_id = last.args[1]
              /\ o.item_name = last.args[2]
              /\ o.quantity = last.args[3]
              /\ o.customer_id = last.args[4]
    /\ Updated =>
          \A i \in 1..Len(last.before) :
              last.before[i].val.order_id # last.args[1] => orders[i] = last.before[i]

\* an update that changed the status and the timestamp of one of two orders
C13_Witness ==
    /\ Updated
    /\ Len(orders) = 2
    /\ StoredOrder(orders, last.args[1]).status
           # StoredOrder(last.before, last.args[1]).status
    /\ StoredOrder(orders, last.args[1]).updated_at
           # StoredOrder(last.before, last.args[1]).updated_at

\* C14: every successful update_order_status sets updated_at to the clock
\* reading of the call, which is not less than the previous updated_at, and
\* over any step the updated_at of a stored order never decreases.
C14_UpdatedAtNeverDecreases ==
    [][/\ (last' # last /\ last'.op = "update_order_status"
                        /\ last'.result.kind = "return")
           => /\ StoredOrder(orders', last'.args[1]).updated_at = clock
              /\ StoredOrder(orders', last'.args[1]).updated_at
                     >= StoredOrder(orders, last'.args[1]).updated_at
       /\ \A i \in 1..Len(orders) :
              /\ Stored(orders', orders[i].val.order_id)
              /\ StoredOrder(orders', orders[i].val.order_id).updated_at
                     >= orders[i].val.updated_at]_vars

\* an update that moved updated_at forward
C14_Witness ==
    /\ Updated
    /\ StoredOrder(orders, last.args[1]).updated_at
           > StoredOrder(last.before, last.args[1]).updated_at
    /\ StoredOrder(last.before, last.args[1]).updated_at
           > StoredOrder(last.before, last.args[1]).created_at

\* C15: in every reachable state every stored order has
\* created_at <= updated_at.
C15_CreatedNotAfterUpdated ==
    \A i \in 1..Len(orders) : orders[i].val.created_at <= orders[i].val.updated_at

\* two orders, one with equal timestamps and one updated after its creation
C15_Witness ==
    /\ Len(orders) = 2
    /\ \E i \in 1..2 : orders[i].val.created_at = orders[i].val.updated_at
    /\ \E i \in 1..2 : orders[i].val.created_at < orders[i].val.updated_at

\* C16: the repository holds at most one order per order_id, each under the
\* key equal to its own order_id; get_all_orders never returns two records
\* with the same order_id and get_order(id) never returns a record of
\* another id.
C16_OneOrderPerId ==
    /\ \A i \in 1..Len(orders) : orders[i].key = orders[i].val.order_id
    /\ \A i, j \in 1..Len(orders) :
          orders[i].val.order_id = orders[j].val.order_id => i = j
    /\ (last.op = "get_all_orders") =>
          \A i, j \in 1..Len(last.result.value) :
              last.result.value[i].order_id = last.result.value[j].order_id => i = j
    /\ (last.op = "get_order" /\ last.result.kind = "return") =>
          last.result.value[1].order_id = last.args[1]

\* get_all_orders returning two orders of the same customer
C16_Witness ==
    /\ last.op = "get_all_orders"
    /\ Len(last.result.value) = 2
    /\ last.result.value[1].customer_id = last.result.value[2].customer_id

\* the result holds exactly the representations of the orders of d that
\* satisfy Match, each once
ExactlyTheMatching(result, d, Match(_)) ==
    /\ \A j \in 1..Len(result) :
          \E i \in 1..Len(d) : Match(d[i].val) /\ result[j] = to_dict(d[i].val)
    /\ \A i \in 1..Len(d) :
          Match(d[i].val) =>
              Cardinality({j \in 1..Len(result) : result[j] = to_dict(d[i].val)}) = 1
    /\ (\A i \in 1..Len(d) : ~Match(d[i].val)) => result = <<>>

\* C17: get_orders_by_status(s) for a non-empty string s raises nothing and
\* returns exactly the stored orders whose current status is s, compared
\* exactly and with case: each once, no other, none when none matches.
C17_ByStatusExact ==
    (last.op = "get_orders_by_status" /\ NonEmptyString(last.args[1]))
        => /\ last.result.kind = "return"
           /\ \A j \in 1..Len(last.result.value) :
                  last.result.value[j].status = last.args[1]
           /\ ExactlyTheMatching(last.result.value, last.before,
                                 LAMBDA o : o.status = last.args[1])

\* one of two stored orders has the status asked for
C17_Witness ==
    /\ last.op = "get_orders_by_status"
    /\ Len(last.before) = 2
    /\ Len(last.result.value) = 1
    /\ last.args[1] = PyStr("shipped")

\* C18: get_orders_by_customer(c) for a non-empty string c raises nothing and
\* returns exactly the stored orders whose customer_id is c, whatever their
\* status: each once, no other, none when none matches.
C18_ByCustomerExact ==
    (last.op = "get_orders_by_customer" /\ NonEmptyString(last.args[1]))
        => /\ last.result.kind = "return"
           /\ \A j \in 1..Len(last.result.value) :
                  last.result.value[j].customer_id = last.args[1]
           /\ ExactlyTheMatching(last.result.value, last.before,
                                 LAMBDA o : o.customer_id = last.args[1])

\* two orders of the customer asked for, in different statuses
C18_Witness ==
    /\ last.op = "get_orders_by_customer"
    /\ Len(last.result.value) = 2
    /\ last.result.value[1].status # last.result.value[2].status

\* C19: get_all_orders returns the representation of every stored order
\* exactly once: its length is the number of create_order calls that have
\* succeeded since the repository was empty, it holds the order_id of each,
\* and neither a failed create nor a status update changes the count.
C19_AllOrdersOncePerCreate ==
    /\ Len(orders) = Len(creates)
    /\ (last.op = "get_all_orders") =>
          LET res == last.result.value
          IN  /\ Len(res) = Len(creates)
              /\ \A k \in 1..Len(creates) :
                    Cardinality({j \in 1..Len(res) : res[j].order_id = creates[k]}) = 1
              /\ \A i \in 1..Len(orders) :
                    Cardinality({j \in 1..Len(res) : res[j] = to_dict(orders[i].val)}) = 1
    /\ ((CreateCalled /\ ~Created) \/ UpdateCalled) => Len(orders) = Len(last.before)
    /\ Created => Len(orders) = Len(last.before) + 1

\* get_all_orders after two creates and an update
C19_Witness ==
    /\ last.op = "get_all_orders"
    /\ Len(creates) = 2
    /\ Len(last.result.value) = 2
    /\ \E j \in 1..2 : last.result.value[j].status = PyStr("shipped")

\* C20: the routes answer 201 to a successful create, 200 to a successful
\* get, update or list, 404 "Not found" to a None from get or update, and
\* 400 to every InvalidArgument and every Conflict; a create or update
\* answered with a 4xx status leaves the repository as it was.
C20_ResponseStatus ==
    /\ Created => last.response.status = 201
    /\ (last.op \in ReadOps \cup {"update_order_status"} /\ last.result.kind = "return")
          => last.response.status = 200
    /\ (last.op \in {"get_order", "update_order_status"} /\ last.result = ReturnedNone)
          => last.response = Response(404, "Not found")
    /\ InvalidArgument(last.result) => last.response.status = 400
    /\ (CreateCalled /\ Conflict(last.result, last.args[1]))
          => last.response.status = 400
    /\ (/\ last.op \in {"create_order", "update_order_status", "abort"}
        /\ last.response.status \in 400..499)
          => orders = last.before

\* a create against a stored id, answered 400 with both orders still stored
C20_Witness ==
    /\ CreateCalled
    /\ Conflict(last.result, last.args[1])
    /\ last.response.status = 400
    /\ Len(orders) = 2

\* the number of orders of the dict d that satisfy Match
CountMatching(d, Match(_)) == Cardinality({i \in 1..Len(d) : Match(d[i].val)})

\* the orders the list endpoint of the last call is to answer
EndpointMatch(o) ==
    CASE last.op = "get_orders_by_status" -> o.status = last.args[1]
      [] last.op = "get_orders_by_customer" -> o.customer_id = last.args[1]
      [] last.op = "GET /api/orders" /\ NonEmptyString(last.args[1])
            -> o.customer_id = last.args[1]
      [] OTHER -> TRUE

\* C21: every list endpoint (all orders, orders by customer, orders by
\* status) answers a count equal to the number of entries of its orders list,
\* which is the number of stored orders that match the endpoint's filter when
\* the request is made.
C21_CountIsListLength ==
    (last.op \in ListOps /\ last.response.status = 200)
        => /\ last.body.count = Len(last.body.orders)
           /\ last.body.count = CountMatching(last.before, EndpointMatch)

\* GET /api/orders?customer_id=C1 answering one of two stored orders
C21_Witness ==
    /\ last.op = "GET /api/orders"
    /\ last.args[1] = PyStr("C1")
    /\ Len(last.before) = 2
    /\ last.body.count = 1
    /\ last.body.orders[1].customer_id = PyStr("C1")

\* thread t has answered a call of op
Answered(t, op) == threads[t].pc = "done" /\ threads[t].op = op
Succeeded(t, op) == Answered(t, op) /\ threads[t].result.kind = "return"

\* C22: create_order checks for the id and inserts in two steps, so two calls
\* with the same order_id that interleave can both succeed, the later save
\* replacing the record of the earlier one.  Only a call that is the one
\* mutation of its order_id in flight succeeds exactly when the id was not
\* stored as it began, its record then being the stored one, and fails with
\* Conflict otherwise; two calls that both succeeded were in flight together.
C22_AloneCreateDecided ==
    /\ \A t \in Threads :
          (Answered(t, "create_order") /\ threads[t].alone) =>
              LET order_id == threads[t].args[1]
              IN  IF threads[t].stored
                  THEN Conflict(threads[t].result, order_id)
                  ELSE /\ threads[t].result.kind = "return"
                       /\ Stored(orders, order_id)
                       /\ StoredOrder(orders, order_id).customer_id = threads[t].args[4]
                       /\ StoredOrder(orders, order_id).ref = threads[t].order[1].ref
    /\ \A t, u \in Threads :
          (/\ t # u
           /\ Succeeded(t, "create_order")
           /\ Succeeded(u, "create_order")
           /\ threads[t].args[1] = threads[u].args[1])
              => ~threads[t].alone /\ ~threads[u].alone

\* two interleaved creates of one id have both succeeded with different
\* customers, and the dict holds the one record of the later save
C22_Witness ==
    \E t, u \in Threads :
        /\ Succeeded(t, "create_order")
        /\ Succeeded(u, "create_order")
        /\ threads[t].args[1] = threads[u].args[1]
        /\ threads[t].result.value[1].customer_id # threads[u].result.value[1].customer_id
        /\ Len(orders) = 1
        /\ orders[1].val.ref = threads[u].order[1].ref
        /\ orders[1].val.customer_id # threads[t].result.value[1].customer_id

\* no get_order has read the status an update had assigned together with the
\* updated_at the update had still to assign
C23_NoPartialRead ==
    \A t \in Threads : Succeeded(t, "get_order") => ~threads[t].partial

\* every representation update_order_status returns has the status asked for
C23_ReturnsOwnStatus ==
    \A t \in Threads :
        Succeeded(t, "update_order_status")
            => threads[t].result.value[1].status = threads[t].args[2]

\* C23: update_order_status takes effect as a single step: no get_order
\* interleaved with it observes the order with the new status and the old
\* updated_at, and the representation update_order_status(id, s) returns has
\* status s even when another update of the same order interleaves.
C23_UpdateIsOneStep == C23_NoPartialRead /\ C23_ReturnsOwnStatus

\* the arguments create_order is called with
CreateInputs ==
    (OrderIds \cup {PyStr("")}) \X ItemNames \X {PyInt(0), PyInt(1)}
        \X (CustomerIds \cup {PyStr("")})

\* what create_order raises for the arguments a on the dict d
RaisedOn(d, a) == create_order_raises(d, a[1], a[2], a[3], a[4])

\* C24: an order_id that has been created is stored ever after, the tracker
\* never calling delete_order; so over every tracker call a create_order that
\* would fail keeps failing with the same error for the same arguments (a
\* retry after a Conflict meets a Conflict again), and a call fails with
\* InvalidArgument for its arguments alone, the same in every repository state.
C24_FailuresRepeat ==
    /\ \A k \in 1..Len(creates) : Stored(orders, creates[k])
    /\ \A i \in 1..Len(last.before) : Stored(orders, last.before[i].val.order_id)
    /\ "delete_order" \notin Range(last.calls)
    /\ \A a \in CreateInputs :
          /\ RaisedOn(last.before, a).kind = "ValueError"
                 => RaisedOn(orders, a) = RaisedOn(last.before, a)
          /\ (InvalidArgument(RaisedOn(orders, a)) \/ InvalidArgument(RaisedOn(<<>>, a)))
                 => RaisedOn(orders, a) = RaisedOn(<<>>, a)
    /\ (CreateCalled /\ ~Created) => last.result = RaisedOn(orders, last.args)
    /\ (CreateCalled /\ last.args[1] \in Range(creates) /\ ~Created)
          => \/ Conflict(last.result, last.args[1])
             \/ last.result = RaisedOn(<<>>, last.args)
    /\ (UpdateCalled /\ InvalidArgument(last.result))
          => last.result = ValueError(FirstFailingUpdate(last.args))
    /\ (last.op = "get_order" /\ InvalidArgument(last.result))
          => last.result = get_order_result(<<>>, last.args[1])

\* a create of an id created two calls of its order ago, updated since,
\* failing with Conflict with both orders stored
C24_Witness ==
    /\ CreateCalled
    /\ Conflict(last.result, last.args[1])
    /\ Len(creates) = 2
    /\ creates[1] = last.args[1]
    /\ StoredOrder(orders, last.args[1]).status = PyStr("shipped")
    /\ Conflict(RaisedOn(orders, last.args), last.args[1])

\* C25: get_all_orders returns the representations in the very sequence the
\* repository yields them, element i being the representation of element i;
\* under sequential use that sequence is the order in which the orders were
\* first created, whatever status updates came later.
C25_CreationOrder ==
    /\ (last.op = "get_all_orders") =>
          /\ Len(last.result.value) = Len(last.before)
          /\ \A i \in 1..Len(last.before) :
                last.result.value[i] = to_dict(Storage_get_all_orders(last.before)[i])
    /\ Len(orders) = Len(creates)
    /\ \A i \in 1..Len(orders) : Storage_get_all_orders(orders)[i].order_id = creates[i]
    /\ Updated =>
          \A i \in 1..Len(last.before) :
              Storage_get_all_orders(orders)[i].order_id = last.before[i].val.order_id

\* get_all_orders after B, then A, were created and B, the first, was updated
\* last of all: B is still the first
C25_Witness ==
    /\ last.op = "get_all_orders"
    /\ creates = <<PyStr("B"), PyStr("A")>>
    /\ last.result.value[1].order_id = PyStr("B")
    /\ last.result.value[2].order_id = PyStr("A")
    /\ orders[1].val.updated_at > orders[2].val.updated_at
    /\ orders[1].val.status = PyStr("shipped")

\* C26: a successful create_order(id, ...) or update_order_status(id, ...)
\* changes the record of id alone: every order stored under another order_id
\* is still stored with all its field values, status and updated_at included.
C26_OtherOrdersUntouched ==
    (Created \/ Updated) =>
        \A i \in 1..Len(last.before) :
            LET other == last.before[i].val
            IN  other.order_id # last.args[1]
                    => /\ Stored(orders, other.order_id)
                       /\ StoredOrder(orders, other.order_id) = other
                       /\ get_order_result(orders, other.order_id)
                              = get_order_result(last.before, other.order_id)

\* an order created for the customer of a stored order that had been shipped
C26_Witness ==
    /\ Created
    /\ Len(last.before) = 1
    /\ last.before[1].val.status = PyStr("shipped")
    /\ last.before[1].val.customer_id = last.args[4]
    /\ last.before[1].val.updated_at < StoredOrder(orders, last.args[1]).created_at
    /\ Len(orders) = 2

\* C27: GET /api/orders filters by customer only when the customer_id
\* parameter is present and not empty; without it, or with it empty, the
\* endpoint answers all the stored orders with status 200, never the 400 of the
\* tracker's InvalidArgument for an empty customer_id; it never filters by
\* status, which only the status route does.
C27_CustomerFilterOptional ==
    /\ (last.op = "GET /api/orders") =>
          /\ last.response.status = 200
          /\ last.result.kind = "return"
          /\ "get_orders_by_status" \notin Range(last.calls)
          /\ IF NonEmptyString(last.args[1])
             THEN /\ last.calls = <<"get_orders_by_customer">>
                  /\ last.body.filter = <<"customer_id", last.args[1]>>
                  /\ ExactlyTheMatching(last.body.orders, last.before,
                                        LAMBDA o : o.customer_id = last.args[1])
             ELSE /\ last.calls = <<"get_all_orders">>
                  /\ last.body.filter = <<>>
                  /\ last.body.orders = MapToDict(Storage_get_all_orders(last.before))
                  /\ Len(last.body.orders) = Len(last.before)
    /\ (last.op = "get_orders_by_status") =>
          Range(last.calls) \subseteq {"get_orders_by_status"}

\* GET /api/orders?customer_id= answering both stored orders, of two customers
C27_Witness ==
    /\ last.op = "GET /api/orders"
    /\ last.args[1] = PyStr("")
    /\ last.response.status = 200
    /\ Len(last.body.orders) = 2
    /\ last.body.orders[1].customer_id # last.body.orders[2].customer_id

====
